---- MODULE Spec2Model ----
(***************************************************************************)
(* Model of crev's in-memory trust database (crev-lib/src/trustdb.rs):     *)
(* proof ingestion with the Timestamped upsert, and the queries computed   *)
(* from the populated database.                                            *)
(***************************************************************************)
EXTENDS Integers, Sequences, FiniteSets, TLC

\* ------------------------------------------------------------------------
\* Bounds of the model
\* ------------------------------------------------------------------------
MaxDate == 3        \* proof timestamps are drawn from 1..MaxDate
MaxIngest == 3      \* proofs passed to add_proof in one run (mixed stream)
MaxReingest == 4    \* proofs passed to add_proof in the re-ingestion run
MaxEdges == 2       \* trust proofs ingested before trust-set queries
U64Max == 2         \* stands for u64::MAX; u64 arithmetic is modulo U64Max + 1

Dates == 1..MaxDate
U64 == 0..U64Max

Ids == {"A", "B", "C"}
Urls == {"u1", "u2"}

\* Ord for Id (bytewise order of the key bytes)
IdOrd(id) == CASE id = "A" -> 1 [] id = "B" -> 2 [] id = "C" -> 3

\* TrustLevel of crev_data::proof::trust
TrustLevels == {"Distrust", "None", "Low", "Medium", "High"}

\* ------------------------------------------------------------------------
\* Maps (HashMap / BTreeMap) are functions whose DOMAIN is the key set
\* ------------------------------------------------------------------------
EmptyMap == [k \in {} |-> k]

Put(map, key, value) ==
    [k \in DOMAIN map \cup {key} |-> IF k = key THEN value ELSE map[k]]

\* entry(key).or_insert_with(|| value): keeps an existing entry
OrInsertWith(map, key, value) ==
    IF key \in DOMAIN map THEN map ELSE Put(map, key, value)

Range(seq) == {seq[i] : i \in DOMAIN seq}

\* ------------------------------------------------------------------------
\* Timestamped<T>
\* ------------------------------------------------------------------------
Timestamped(date, value) == [date |-> date, value |-> value]

\* Timestamped::update_to_more_recent: the value is replaced when the
\* incoming date is newer; the stored date field is not assigned.
update_to_more_recent(self, date, value) ==
    IF self.date < date THEN [self EXCEPT !.value = value] ELSE self

\* Timestamped::insert_into_or_update_to_more_recent on map.entry(key)
insert_into_or_update_to_more_recent(self, map, key) ==
    IF key \in DOMAIN map
    THEN [map EXCEPT![key] = update_to_more_recent(map[key], self.date, self.value)]
    ELSE Put(map, key, self)

\* ------------------------------------------------------------------------
\* Proofs (crev_data::proof): PubId, Trust, review::Package, review::Code
\* ------------------------------------------------------------------------
PubId(id, url) == [id |-> id, url |-> url]

Ratings == {"Negative", "Neutral", "Positive"}
Digests == {"d1", "d2"}

TrustProof(from, date, trust, ids) ==
    [kind |-> "Trust", from |-> from, date |-> date, trust |-> trust, ids |-> ids]

CodeProof(from, date, files, rating) ==
    [kind |-> "Code", from |-> from, date |-> date, files |-> files,
     review |-> [rating |-> rating]]

PackageInfo(source, name, version, digest) ==
    [source |-> source, name |-> name, version |-> version, digest |-> digest]

RatingOrd(r) == CASE r = "Negative" -> 0 [] r = "Neutral" -> 1 [] r = "Positive" -> 2
VersionOrd(v) == CASE v = "v1" -> 0 [] v = "v2" -> 1

\* The signature string of a package review proof.  It is a hash of the
\* signed content, so it is injective on the payloads of the model and its
\* order is unrelated to the order of ingestion.
SignatureOf(from, date, package, rating) ==
    ((MaxDate - date) * 3 + RatingOrd(rating)) * 2 + VersionOrd(package.version)
    + (IF package.name = "n1" THEN 0 ELSE 6 * MaxDate)
    + (IF from.id = "A" THEN 0 ELSE 12 * MaxDate)

PackageProof(from, date, package, rating) ==
    [kind |-> "Package", from |-> from, date |-> date, package |-> package,
     review |-> [rating |-> rating],
     signature |-> SignatureOf(from, date, package, rating)]

\* ------------------------------------------------------------------------
\* TrustDB
\* ------------------------------------------------------------------------
\* TrustDB::new / Default for TrustDB
NewTrustDB ==
    [trust_id_to_id |-> EmptyMap,
     digest_to_reviews |-> EmptyMap,
     url_by_id |-> EmptyMap,
     url_by_id_secondary |-> EmptyMap,
     package_review_by_signature |-> EmptyMap,
     package_reviews_by_source |-> EmptyMap,
     package_reviews_by_name |-> EmptyMap,
     package_reviews_by_version |-> EmptyMap]

\* map.entry(outer).or_insert_with(HashMap::new).entry(inner) handed to
\* insert_into_or_update_to_more_recent
UpsertNested(map, outer, inner, self) ==
    LET m == OrInsertWith(map, outer, EmptyMap)
    IN  [m EXCEPT ![outer] = insert_into_or_update_to_more_recent(self, m[outer], inner)]

\* A BTreeSet<String> is the ascending sequence of its elements.
\* BTreeSet::insert leaves the set alone when the element is present.
RECURSIVE InsertSorted(_, _)
InsertSorted(set, x) ==
    IF set = << >> THEN <<x>>
    ELSE IF x < Head(set) THEN <<x>> \o set
    ELSE <<Head(set)>> \o InsertSorted(Tail(set), x)

\* a Vec::push in place of the set insertion
VecPush(set, x) == Append(set, x)

BTreeSetInsert(set, x) ==
    IF x \in Range(set) THEN set ELSE InsertSorted(set, x)

\* index.entry(key).or_default().insert(signature)
InsertSignature(index, key, signature) ==
    LET m == OrInsertWith(index, key, << >>)
    IN  [m EXCEPT ![key] = BTreeSetInsert(m[key], signature)]

\* the URL of a target written over the primary entry of its id
record_url_from_to_field_into_primary(db, date, to) ==
    [db EXCEPT !.url_by_id = Put(db.url_by_id, to.id, Timestamped(date, to.url))]

record_url_from_to_field(db, date, to) ==
    [db EXCEPT !.url_by_id_secondary =
        OrInsertWith(db.url_by_id_secondary, to.id, Timestamped(date, to.url))]

record_url_from_from_field(db, date, from) ==
    [db EXCEPT !.url_by_id =
        insert_into_or_update_to_more_recent(
            Timestamped(date, from.url), db.url_by_id, from.id)]

\* the loop `for file in &review.files` of add_code_review
RECURSIVE add_code_review_files(_, _, _)
add_code_review_files(db, review, files) ==
    IF files = << >> THEN db
    ELSE add_code_review_files(
            [db EXCEPT !.digest_to_reviews =
                UpsertNested(db.digest_to_reviews, Head(files).digest, review.from.id,
                             Timestamped(review.date, review.review))],
            review, Tail(files))

add_code_review(db, review) ==
    add_code_review_files(
        record_url_from_from_field(db, review.date, review.from), review, review.files)

\* the review left out of package_review_by_signature
add_package_review_unstored(db, review, signature) ==
    LET db1 == record_url_from_from_field(db, review.date, review.from)
        pkg == review.package
    IN  [db1 EXCEPT
            !.digest_to_reviews =
                UpsertNested(db1.digest_to_reviews, pkg.digest, review.from.id,
                             Timestamped(review.date, review.review)),
            !.package_reviews_by_source =
                InsertSignature(db1.package_reviews_by_source, pkg.source, signature),
            !.package_reviews_by_name =
                InsertSignature(db1.package_reviews_by_name,
                                <<pkg.source, pkg.name>>, signature),
            !.package_reviews_by_version =
                InsertSignature(db1.package_reviews_by_version,
                                <<pkg.source, pkg.name, pkg.version>>, signature)]

add_package_review(db, review, signature) ==
    LET db1 == record_url_from_from_field(db, review.date, review.from)
        pkg == review.package
    IN  [db1 EXCEPT
            !.digest_to_reviews =
                UpsertNested(db1.digest_to_reviews, pkg.digest, review.from.id,
                             Timestamped(review.date, review.review)),
            !.package_review_by_signature =
                OrInsertWith(db1.package_review_by_signature, signature, review),
            !.package_reviews_by_source =
                InsertSignature(db1.package_reviews_by_source, pkg.source, signature),
            !.package_reviews_by_name =
                InsertSignature(db1.package_reviews_by_name,
                                <<pkg.source, pkg.name>>, signature),
            !.package_reviews_by_version =
                InsertSignature(db1.package_reviews_by_version,
                                <<pkg.source, pkg.name, pkg.version>>, signature)]

add_trust_raw(db, from, to, date, trust) ==
    [db EXCEPT !.trust_id_to_id =
        UpsertNested(db.trust_id_to_id, from, to, Timestamped(date, trust))]

\* first loop of add_trust: `for to in &trust.ids { self.add_trust_raw(..) }`
RECURSIVE add_trust_edges(_, _, _)
add_trust_edges(db, trust, ids) ==
    IF ids = << >> THEN db
    ELSE add_trust_edges(
            add_trust_raw(db, trust.from.id, Head(ids).id, trust.date, trust.trust),
            trust, Tail(ids))

\* second loop of add_trust: `for to in &trust.ids { self.record_url_from_to_field(..) }`
RECURSIVE add_trust_urls(_, _, _)
add_trust_urls(db, trust, ids) ==
    IF ids = << >> THEN db
    ELSE add_trust_urls(record_url_from_to_field(db, trust.date, Head(ids)),
                        trust, Tail(ids))

add_trust(db, trust) ==
    LET db1 == record_url_from_from_field(db, trust.date, trust.from)
        db2 == add_trust_edges(db1, trust, trust.ids)
    IN  add_trust_urls(db2, trust, trust.ids)

\* TrustDB::add_proof for a proof whose verify() succeeds
add_proof(db, proof) ==
    CASE proof.kind = "Code" -> add_code_review(db, proof)
      [] proof.kind = "Package" -> add_package_review(db, proof, proof.signature)
      [] proof.kind = "Trust" -> add_trust(db, proof)

\* the content dispatched before the signature is verified
add_proof_verified_late(db, proof, verifies) ==
    [panic |-> ~verifies, db |-> add_proof(db, proof)]

\* TrustDB::add_proof on any proof: `verifies` is the outcome of
\* proof.verify(), and expect() panics on an Err before the match on the
\* content.  The result is the database at the return or at the panic.
add_proof_verify(db, proof, verifies) ==
    IF verifies
    THEN [panic |-> FALSE, db |-> add_proof(db, proof)]
    ELSE [panic |-> TRUE, db |-> db]

\* TrustDB::import_from_iter
RECURSIVE import_from_iter(_, _)
import_from_iter(db, i) ==
    IF i = << >> THEN db ELSE import_from_iter(add_proof(db, Head(i)), Tail(i))

\* ------------------------------------------------------------------------
\* Queries
\* ------------------------------------------------------------------------
\* Option::None of an optional argument or result
Nil == "nil"

\* a sort that puts a proof before the proofs of its own date
RECURSIVE InsertByDate_before_equal(_, _)
InsertByDate_before_equal(sorted, x) ==
    IF sorted = << >> THEN <<x>>
    ELSE IF x.date <= Head(sorted).date THEN <<x>> \o sorted
    ELSE <<Head(sorted)>> \o InsertByDate_before_equal(Tail(sorted), x)

\* proofs.sort_by(|a, b| a.date().cmp(&b.date())): a stable sort
RECURSIVE InsertByDate(_, _)
InsertByDate(sorted, x) ==
    IF sorted = << >> THEN <<x>>
    ELSE IF x.date < Head(sorted).date THEN <<x>> \o sorted
    ELSE <<Head(sorted)>> \o InsertByDate(Tail(sorted), x)

RECURSIVE sort_by_date(_)
sort_by_date(proofs) ==
    IF proofs = << >> THEN << >>
    ELSE InsertByDate(sort_by_date(SubSeq(proofs, 1, Len(proofs) - 1)),
                      proofs[Len(proofs)])

\* the (Some, Some) arm reading the index by name
SignatureSet_version_by_name(db, source, name, version) ==
    CASE name /= Nil /\ version /= Nil ->
            IF <<source, name>> \in DOMAIN db.package_reviews_by_name
            THEN db.package_reviews_by_name[<<source, name>>] ELSE << >>
      [] name /= Nil /\ version = Nil ->
            IF <<source, name>> \in DOMAIN db.package_reviews_by_name
            THEN db.package_reviews_by_name[<<source, name>>] ELSE << >>
      [] name = Nil /\ version = Nil ->
            IF source \in DOMAIN db.package_reviews_by_source
            THEN db.package_reviews_by_source[source] ELSE << >>

\* the signature set selected by the match on (name, version), empty when
\* the key is absent; the (None, Some(_)) arm panics
SignatureSet(db, source, name, version) ==
    CASE name /= Nil /\ version /= Nil ->
            IF <<source, name, version>> \in DOMAIN db.package_reviews_by_version
            THEN db.package_reviews_by_version[<<source, name, version>>] ELSE << >>
      [] name /= Nil /\ version = Nil ->
            IF <<source, name>> \in DOMAIN db.package_reviews_by_name
            THEN db.package_reviews_by_name[<<source, name>>] ELSE << >>
      [] name = Nil /\ version = Nil ->
            IF source \in DOMAIN db.package_reviews_by_source
            THEN db.package_reviews_by_source[source] ELSE << >>

get_package_review_count(db, source, name, version) ==
    IF name = Nil /\ version /= Nil
    THEN [panic |-> TRUE, count |-> 0]
    ELSE [panic |-> FALSE, count |-> Len(SignatureSet(db, source, name, version))]

get_package_reviews_for_package(db, source, name, version) ==
    IF name = Nil /\ version /= Nil
    THEN [panic |-> TRUE, proofs |-> << >>]
    ELSE LET sigs == SignatureSet(db, source, name, version)
         IN  IF \E i \in DOMAIN sigs : sigs[i] \notin DOMAIN db.package_review_by_signature
             THEN [panic |-> TRUE, proofs |-> << >>]
             ELSE [panic |-> FALSE,
                   proofs |-> sort_by_date(
                       [i \in DOMAIN sigs |-> db.package_review_by_signature[sigs[i]]])]

\* the ids of the primary map only
all_known_ids_primary_only(db) == DOMAIN db.url_by_id

all_known_ids(db) == DOMAIN db.url_by_id \cup DOMAIN db.url_by_id_secondary

\* the positive count consulted before the negative one
verify_digest_verified_first(db, digest, trust_set) ==
    IF digest \in DOMAIN db.digest_to_reviews
    THEN LET reviews == db.digest_to_reviews[digest]
             matching_reviewers == trust_set \cap DOMAIN reviews
             trust_count == Cardinality({m \in matching_reviewers :
                                RatingOrd("Neutral") <= RatingOrd(reviews[m].value.rating)})
             distrust_count == Cardinality({m \in matching_reviewers :
                                RatingOrd(reviews[m].value.rating) < RatingOrd("Neutral")})
         IN  IF trust_count > 0 THEN "Verified"
             ELSE IF distrust_count > 0 THEN "Flagged"
             ELSE "Unknown"
    ELSE "Unknown"

\* every reviewer counted, trusted or not
verify_digest_any_reviewer(db, digest, trust_set) ==
    IF digest \in DOMAIN db.digest_to_reviews
    THEN LET reviews == db.digest_to_reviews[digest]
             matching_reviewers == DOMAIN reviews
             trust_count == Cardinality({m \in matching_reviewers :
                                RatingOrd("Neutral") <= RatingOrd(reviews[m].value.rating)})
             distrust_count == Cardinality({m \in matching_reviewers :
                                RatingOrd(reviews[m].value.rating) < RatingOrd("Neutral")})
         IN  IF distrust_count > 0 THEN "Flagged"
             ELSE IF trust_count > 0 THEN "Verified"
             ELSE "Unknown"
    ELSE "Unknown"

\* verify_digest, with get_reviews_of inlined as the test on the key set
verify_digest(db, digest, trust_set) ==
    IF digest \in DOMAIN db.digest_to_reviews
    THEN LET reviews == db.digest_to_reviews[digest]
             matching_reviewers == trust_set \cap DOMAIN reviews
             trust_count == Cardinality({m \in matching_reviewers :
                                RatingOrd("Neutral") <= RatingOrd(reviews[m].value.rating)})
             distrust_count == Cardinality({m \in matching_reviewers :
                                RatingOrd(reviews[m].value.rating) < RatingOrd("Neutral")})
         IN  IF distrust_count > 0 THEN "Flagged"
             ELSE IF trust_count > 0 THEN "Verified"
             ELSE "Unknown"
    ELSE "Unknown"

\* the two maps consulted in the other order
lookup_url_secondary_first(db, id) ==
    IF id \in DOMAIN db.url_by_id_secondary THEN db.url_by_id_secondary[id].value
    ELSE IF id \in DOMAIN db.url_by_id THEN db.url_by_id[id].value
    ELSE Nil

lookup_url(db, id) ==
    IF id \in DOMAIN db.url_by_id THEN db.url_by_id[id].value
    ELSE IF id \in DOMAIN db.url_by_id_secondary THEN db.url_by_id_secondary[id].value
    ELSE Nil

\* ------------------------------------------------------------------------
\* Trust set
\* ------------------------------------------------------------------------
TrustDistanceParams(max, high, medium, low) ==
    [max_distance |-> max, high_trust_distance |-> high,
     medium_trust_distance |-> medium, low_trust_distance |-> low]

\* Option<u64>
Some(v) == [some |-> TRUE, v |-> v]
NoDistance == [some |-> FALSE, v |-> 0]

\* a Distrust edge given the distance of a Low one
distance_by_level_distrust_low(params, level) ==
    CASE level = "Distrust" -> Some(params.low_trust_distance)
      [] level = "None" -> NoDistance
      [] level = "Low" -> Some(params.low_trust_distance)
      [] level = "Medium" -> Some(params.medium_trust_distance)
      [] level = "High" -> Some(params.high_trust_distance)

\* TrustDistanceParams::distance_by_level
distance_by_level(params, level) ==
    CASE level = "Distrust" -> NoDistance
      [] level = "None" -> NoDistance
      [] level = "Low" -> Some(params.low_trust_distance)
      [] level = "Medium" -> Some(params.medium_trust_distance)
      [] level = "High" -> Some(params.high_trust_distance)

\* TrustDB::get_ids_trusted_by: the (level, id) pairs of the edges of id
get_ids_trusted_by(db, id) ==
    IF id \in DOMAIN db.trust_id_to_id
    THEN {<<db.trust_id_to_id[id][to].value, to>> : to \in DOMAIN db.trust_id_to_id[id]}
    ELSE {}

Visit(distance, id) == [distance |-> distance, id |-> id]

\* the comparison with the budget inverted
ExceedsBudget_inverted(candidate_total_distance, params) ==
    candidate_total_distance < params.max_distance

\* `if candidate_total_distance > params.max_distance { continue; }`
ExceedsBudget(candidate_total_distance, params) ==
    candidate_total_distance > params.max_distance

\* the root left out of the visited map
InitialVisited_empty(for_id) == EmptyMap

\* `visited.insert(&for_id, 0)` on the new map
InitialVisited(for_id) == Put(EmptyMap, for_id, 0)

\* derived Ord of Visit: by distance, then by id
VisitLess(a, b) ==
    \/ a.distance < b.distance
    \/ a.distance = b.distance /\ IdOrd(a.id) < IdOrd(b.id)

\* a candidate recorded and enqueued again when its distance is not larger
RelaxCandidate_requeue_equal(st, current, edge, params, overflow_checks) ==
    LET level == edge[1]
        candidate_id == edge[2]
        candidate_distance_from_current == distance_by_level(params, level)
    IN  IF st.panic \/ ~candidate_distance_from_current.some THEN st
        ELSE LET sum == current.distance + candidate_distance_from_current.v
                 candidate_total_distance == sum % (U64Max + 1)
                 visit == Visit(candidate_total_distance, candidate_id)
             IN  IF sum > U64Max /\ overflow_checks THEN [st EXCEPT !.panic = TRUE]
                 ELSE IF ExceedsBudget(candidate_total_distance, params) THEN st
                 ELSE IF candidate_id \in DOMAIN st.visited
                         /\ st.visited[candidate_id] < candidate_total_distance
                      THEN st
                      ELSE [st EXCEPT
                              !.visited = Put(st.visited, candidate_id,
                                              candidate_total_distance),
                              !.pending = st.pending \cup {visit}]

\* One iteration of `for (level, candidate_id) in self.get_ids_trusted_by(..)`.
\* st is the loop state [pending, visited, panic].  The u64 sum
\* current.distance + candidate_distance_from_current panics on overflow when
\* the build has overflow checks and wraps around otherwise.
RelaxCandidate(st, current, edge, params, overflow_checks) ==
    LET level == edge[1]
        candidate_id == edge[2]
        candidate_distance_from_current == distance_by_level(params, level)
    IN  IF st.panic \/ ~candidate_distance_from_current.some THEN st
        ELSE LET sum == current.distance + candidate_distance_from_current.v
                 candidate_total_distance == sum % (U64Max + 1)
                 visit == Visit(candidate_total_distance, candidate_id)
             IN  IF sum > U64Max /\ overflow_checks THEN [st EXCEPT !.panic = TRUE]
                 ELSE IF ExceedsBudget(candidate_total_distance, params) THEN st
                 ELSE IF candidate_id \in DOMAIN st.visited
                      THEN IF st.visited[candidate_id] > candidate_total_distance
                           THEN [st EXCEPT
                                   !.visited = Put(st.visited, candidate_id,
                                                   candidate_total_distance),
                                   !.pending = st.pending \cup {visit}]
                           ELSE st
                      ELSE [st EXCEPT
                              !.visited = Put(st.visited, candidate_id,
                                              candidate_total_distance),
                              !.pending = st.pending \cup {visit}]

\* The for loop over the edges of current.  The HashMap yields them in an
\* unspecified order; every iteration reads and writes only the entries of
\* its own candidate_id, so the order chosen here does not change the result.
RECURSIVE RelaxAll(_, _, _, _, _)
RelaxAll(st, current, edges, params, overflow_checks) ==
    IF edges = {} THEN st
    ELSE LET edge == CHOOSE e \in edges : \A f \in edges : IdOrd(e[2]) <= IdOrd(f[2])
         IN  RelaxAll(RelaxCandidate(st, current, edge, params, overflow_checks),
                      current, edges \ {edge}, params, overflow_checks)

\* `while let Some(current) = pending.iter().next().cloned()`
RECURSIVE TrustSetLoop(_, _, _, _)
TrustSetLoop(db, st, params, overflow_checks) ==
    IF st.panic \/ st.pending = {} THEN st
    ELSE LET current == CHOOSE v \in st.pending :
                            \A w \in st.pending : v = w \/ VisitLess(v, w)
             st1 == [st EXCEPT !.pending = st.pending \ {current}]
         IN  IF current.id \in DOMAIN st1.visited
                /\ st1.visited[current.id] < current.distance
             THEN TrustSetLoop(db, st1, params, overflow_checks)
             ELSE TrustSetLoop(db,
                    RelaxAll(st1, current, get_ids_trusted_by(db, current.id),
                             params, overflow_checks),
                    params, overflow_checks)

\* TrustDB::calculate_trust_set; the result is [panic, ids]
calculate_trust_set(db, for_id, params, overflow_checks) ==
    LET st0 == [pending |-> {Visit(0, for_id)},
                visited |-> InitialVisited(for_id),
                panic |-> FALSE]
        st == TrustSetLoop(db, st0, params, overflow_checks)
    IN  [panic |-> st.panic, ids |-> IF st.panic THEN {} ELSE DOMAIN st.visited]

\* ------------------------------------------------------------------------
\* Proof streams handed to import_from_iter
\* ------------------------------------------------------------------------
\* a mixed stream: A trusts B, B reviews packages and files
MixedProofs ==
    {TrustProof(PubId("A", "u1"), d, l, <<PubId("B", u)>>) :
        d \in Dates, l \in {"Low", "High"}, u \in Urls}
    \cup {PackageProof(PubId("B", "u1"), d, PackageInfo("s1", "n1", v, "d1"), "Positive") :
        d \in Dates, v \in {"v1", "v2"}}
    \cup {CodeProof(PubId("B", "u2"), d, <<[digest |-> "d1"], [digest |-> "d2"]>>,
                    "Negative") : d \in Dates}

\* repeated statements of A about B
RepeatProofs ==
    {TrustProof(PubId("A", "u1"), d, l, <<PubId("B", "u1")>>) :
        d \in Dates, l \in {"Low", "High"}}

\* single trust edges between the ids, all of one date
\* The chain A -> B -> C at every level, and the back edge B -> A that
\* closes a cycle.
EdgeProofs ==
    {TrustProof(PubId(e[1], "u1"), 1, l, <<PubId(e[2], "u1")>>) :
        e \in {<<"A", "B">>, <<"B", "C">>}, l \in TrustLevels}
    \cup {TrustProof(PubId("B", "u1"), 1, l, <<PubId("A", "u1")>>) : l \in {"High", "Low"}}

\* ------------------------------------------------------------------------
\* State machine
\* ------------------------------------------------------------------------
VARIABLES
    db,     \* the TrustDB
    log,    \* the proofs passed to add_proof so far, in order
    last,   \* the last query made on the populated database and its result
    cmd     \* the cargo-crev command in progress (main.rs)

vars == <<db, log, last, cmd>>

NoQuery == [op |-> "none"]
Idle == [op |-> "idle"]

Init ==
    /\ db = NewTrustDB
    /\ log = << >>
    /\ last = NoQuery
    /\ cmd = Idle

\* one iteration of import_from_iter: add_proof on the next proof of the stream
AddProof(stream, max) ==
    /\ Len(log) < max
    /\ \E proof \in stream :
        /\ db' = add_proof(db, proof)
        /\ log' = Append(log, proof)
    /\ last' = NoQuery
    /\ UNCHANGED cmd

AddMixedProof == AddProof(MixedProofs, MaxIngest)
AddRepeatProof == AddProof(RepeatProofs, MaxReingest)
AddEdgeProof == AddProof(EdgeProofs, MaxEdges)

AllParams ==
    {TrustDistanceParams(max, high, medium, low) :
        max \in U64, high \in U64, medium \in U64, low \in U64}

\* Queries take &self and leave the database unchanged, so the answer to one
\* does not depend on the queries before it: one query is recorded per
\* population of the database.
CalculateTrustSet ==
    /\ last = NoQuery
    /\ \E for_id \in Ids, params \in AllParams, overflow_checks \in BOOLEAN :
        last' = [op |-> "calculate_trust_set", for_id |-> for_id, params |-> params,
                 overflow_checks |-> overflow_checks,
                 result |-> calculate_trust_set(db, for_id, params, overflow_checks)]
    /\ UNCHANGED <<db, log, cmd>>

Next == AddMixedProof
Spec == Init /\ [][Next]_vars

NextReingest == AddRepeatProof
SpecReingest == Init /\ [][NextReingest]_vars

NextTrustSet == AddEdgeProof \/ CalculateTrustSet
SpecTrustSet == Init /\ [][NextTrustSet]_vars

\* ------------------------------------------------------------------------
\* What the ingested proofs said, per key of each timestamped map: the set
\* of <<position in log, date, value>> of the statements made for the key
\* ------------------------------------------------------------------------
Names(proof, id) == \E i \in DOMAIN proof.ids : proof.ids[i].id = id

IsTrustOf(proof, a, b) ==
    proof.kind = "Trust" /\ proof.from.id = a /\ Names(proof, b)

IsReviewOf(proof, digest, id) ==
    /\ proof.from.id = id
    /\ \/ proof.kind = "Package" /\ proof.package.digest = digest
       \/ proof.kind = "Code" /\ \E i \in DOMAIN proof.files : proof.files[i].digest = digest

TrustSaid(a, b) ==
    {<<i, log[i].date, log[i].trust>> : i \in {j \in DOMAIN log : IsTrustOf(log[j], a, b)}}

ReviewSaid(digest, id) ==
    {<<i, log[i].date, log[i].review>> :
        i \in {j \in DOMAIN log : IsReviewOf(log[j], digest, id)}}

UrlSaid(id) ==
    {<<i, log[i].date, log[i].from.url>> : i \in {j \in DOMAIN log : log[j].from.id = id}}

SecondaryUrlSaid(id) ==
    UNION {{<<i, log[i].date, log[i].ids[k].url>> :
                k \in {n \in DOMAIN log[i].ids : log[i].ids[n].id = id}} :
           i \in {j \in DOMAIN log : log[j].kind = "Trust"}}

MaxDateOf(said) == CHOOSE d \in {e[2] : e \in said} : \A e \in said : e[2] <= d

AtMaxDate(said) == {e \in said : e[2] = MaxDateOf(said)}

\* the statement of the maximum date that was ingested first
FirstAtMaxDate(said) ==
    CHOOSE e \in AtMaxDate(said) : \A f \in AtMaxDate(said) : e[1] <= f[1]

DistinctDates(said) == \A e, f \in said : e[1] /= f[1] => e[2] /= f[2]

\* the entry of a timestamped map holds a statement of the maximum date
HoldsLatest(entry, said) ==
    /\ \E e \in said : e[2] = entry.date /\ e[3] = entry.value
    /\ entry.date = MaxDateOf(said)

\* C1: Latest wins for trust edges.  After ingesting a sequence of Trust
\* proofs by author a that name b, with pairwise distinct timestamps, the
\* level stored in trust_id_to_id[a][b] is the level of the proof with the
\* maximum timestamp.
C1_LatestTrustLevelWins ==
    \A a, b \in Ids :
        (/\ log /= << >>
         /\ \A i \in DOMAIN log : IsTrustOf(log[i], a, b)
         /\ DistinctDates(TrustSaid(a, b)))
        => /\ a \in DOMAIN db.trust_id_to_id
           /\ b \in DOMAIN db.trust_id_to_id[a]
           /\ db.trust_id_to_id[a][b].value = FirstAtMaxDate(TrustSaid(a, b))[3]

\* C2: In every reachable state and for every key of every timestamped map
\* (trust_id_to_id, digest_to_reviews, url_by_id, url_by_id_secondary) the
\* stored entry is a (timestamp, value) pair of one ingested proof and its
\* timestamp is the maximum timestamp ingested so far for the key.
C2_EntriesHoldLatest ==
    /\ \A a \in DOMAIN db.trust_id_to_id : \A b \in DOMAIN db.trust_id_to_id[a] :
            HoldsLatest(db.trust_id_to_id[a][b], TrustSaid(a, b))
    /\ \A d \in DOMAIN db.digest_to_reviews : \A id \in DOMAIN db.digest_to_reviews[d] :
            HoldsLatest(db.digest_to_reviews[d][id], ReviewSaid(d, id))
    /\ \A id \in DOMAIN db.url_by_id : HoldsLatest(db.url_by_id[id], UrlSaid(id))
    /\ \A id \in DOMAIN db.url_by_id_secondary :
            HoldsLatest(db.url_by_id_secondary[id], SecondaryUrlSaid(id))

\* the entry holds the first-ingested value among the statements that tie
\* for the maximum date
KeepsFirstOfTie(entry, said) ==
    Cardinality({e[1] : e \in AtMaxDate(said)}) >= 2
        => entry.value = FirstAtMaxDate(said)[3]

\* C3: Tie rule.  When several ingested proofs for the same key share the
\* maximum timestamp seen for the key, the stored value is the value of the
\* one of them that was ingested first, whatever proofs of smaller
\* timestamps were ingested before or between them.
C3_TieKeepsFirstSeen ==
    /\ \A a \in DOMAIN db.trust_id_to_id : \A b \in DOMAIN db.trust_id_to_id[a] :
            KeepsFirstOfTie(db.trust_id_to_id[a][b], TrustSaid(a, b))
    /\ \A d \in DOMAIN db.digest_to_reviews : \A id \in DOMAIN db.digest_to_reviews[d] :
            KeepsFirstOfTie(db.digest_to_reviews[d][id], ReviewSaid(d, id))
    /\ \A id \in DOMAIN db.url_by_id : KeepsFirstOfTie(db.url_by_id[id], UrlSaid(id))

\* ------------------------------------------------------------------------
\* Everything the queries can tell about a database
\* ------------------------------------------------------------------------
Sources == {"s1", "s2"}
PackageNames == {"n1", "n2"}
Versions == {"v1", "v2"}

Observations(d) ==
    [lookup_url |-> [id \in Ids |-> lookup_url(d, id)],
     all_known_ids |-> all_known_ids(d),
     get_package_review_count |->
        [a \in Sources \X (PackageNames \cup {Nil}) \X (Versions \cup {Nil}) |->
            get_package_review_count(d, a[1], a[2], a[3])],
     get_package_reviews_for_package |->
        [a \in Sources \X (PackageNames \cup {Nil}) \X (Versions \cup {Nil}) |->
            get_package_reviews_for_package(d, a[1], a[2], a[3])],
     verify_digest |->
        [a \in Digests \X SUBSET Ids |-> verify_digest(d, a[1], a[2])],
     calculate_trust_set |->
        [a \in Ids \X AllParams \X BOOLEAN |-> calculate_trust_set(d, a[1], a[2], a[3])]]

\* the keys of the timestamped maps that a proof makes a statement for
KeysOf(proof) ==
    {<<"url_by_id", proof.from.id, "-">>}
    \cup (IF proof.kind = "Trust"
          THEN {<<"trust_id_to_id", proof.from.id, proof.ids[i].id>> : i \in DOMAIN proof.ids}
               \cup {<<"url_by_id_secondary", proof.ids[i].id, "-">> : i \in DOMAIN proof.ids}
          ELSE {})
    \cup (IF proof.kind = "Package"
          THEN {<<"digest_to_reviews", proof.package.digest, proof.from.id>>}
          ELSE {})
    \cup (IF proof.kind = "Code"
          THEN {<<"digest_to_reviews", proof.files[i].digest, proof.from.id>> :
                    i \in DOMAIN proof.files}
          ELSE {})

\* no two ingested proofs for the same key have equal timestamps
NoEqualTimestamps ==
    \A i, j \in DOMAIN log :
        (i /= j /\ KeysOf(log[i]) \cap KeysOf(log[j]) /= {}) => log[i].date /= log[j].date

Reordered(f) == [i \in DOMAIN log |-> log[f[i]]]

\* C4: Ingest order is not observable.  For a set of proofs in which no two
\* proofs for the same key have equal timestamps, every permutation of the
\* ingest order yields a database on which calculate_trust_set,
\* verify_digest, lookup_url, all_known_ids, get_package_review_count and
\* get_package_reviews_for_package return identical results.
C4_IngestOrderNotObservable ==
    NoEqualTimestamps =>
        \A f \in Permutations(DOMAIN log) :
            Observations(import_from_iter(NewTrustDB, Reordered(f))) = Observations(db)

\* C5: add_proof is idempotent.  Ingesting again a proof that was ingested
\* before (possibly followed by other proofs) leaves every index unchanged.
C5_ReingestIsNoOp ==
    [][(Len(log') = Len(log) + 1 /\ log'[Len(log')] \in Range(log)) => db' = db]_vars

LastProof == log[Len(log)]

AllCountArgs == Sources \X (PackageNames \cup {Nil}) \X (Versions \cup {Nil})

\* C6: Signature idempotence of counters.  Ingesting the same package-review
\* proof a second time leaves get_package_review_count unchanged at the
\* three granularities, for every argument.
C6_ReingestKeepsCounts ==
    [][(/\ Len(log') = Len(log) + 1
        /\ log'[Len(log')].kind = "Package"
        /\ log'[Len(log')] \in Range(log))
       => \A a \in AllCountArgs :
            get_package_review_count(db', a[1], a[2], a[3])
                = get_package_review_count(db, a[1], a[2], a[3])]_vars

\* a package review was ingested, then another one of the same package
\* name, then the first one again
C6_Witness ==
    /\ Len(log) = 3
    /\ log[1].kind = "Package" /\ log[2].kind = "Package"
    /\ log[3] = log[1] /\ log[2] /= log[1]
    /\ get_package_review_count(db, "s1", "n1", Nil).count = 2
    /\ get_package_review_count(db, "s1", Nil, Nil).count = 2
    /\ get_package_review_count(db, "s1", "n1", log[1].package.version).count >= 1

FromUrlsSeen(id) == {e[3] : e \in UrlSaid(id)}
ToUrlsSeen(id) == {e[3] : e \in SecondaryUrlSaid(id)}

\* C7: URL precedence.  If id authored an ingested proof, lookup_url(id) is
\* the primary entry, a URL of a from field, and never the secondary one;
\* it is the secondary entry only when there is no primary entry, and
\* nothing when there is neither.
C7_PrimaryUrlShadowsSecondary ==
    \A id \in Ids :
        /\ FromUrlsSeen(id) /= {}
            => /\ id \in DOMAIN db.url_by_id
               /\ lookup_url(db, id) = db.url_by_id[id].value
               /\ lookup_url(db, id) \in FromUrlsSeen(id)
        /\ (FromUrlsSeen(id) = {} /\ ToUrlsSeen(id) /= {})
            => /\ id \notin DOMAIN db.url_by_id
               /\ id \in DOMAIN db.url_by_id_secondary
               /\ lookup_url(db, id) = db.url_by_id_secondary[id].value
               /\ lookup_url(db, id) \in ToUrlsSeen(id)
        /\ (FromUrlsSeen(id) = {} /\ ToUrlsSeen(id) = {})
            => lookup_url(db, id) = Nil

\* B is known by a secondary URL and, later, by a different primary URL
C7_Witness ==
    /\ "B" \in DOMAIN db.url_by_id /\ "B" \in DOMAIN db.url_by_id_secondary
    /\ db.url_by_id["B"].value /= db.url_by_id_secondary["B"].value
    /\ log[1].kind = "Trust"
    /\ lookup_url(db, "B") = db.url_by_id["B"].value
    /\ lookup_url(db, "A") = "u1" /\ lookup_url(db, "C") = Nil

\* ------------------------------------------------------------------------
\* Trust set: the distances of the stored graph in unbounded arithmetic
\* ------------------------------------------------------------------------
Unreachable == (U64Max + 1) * Cardinality(Ids)

\* weight of the stored edge a -> b, Unreachable when there is none or its
\* level is Distrust or None
EdgeWeight(d, params, a, b) ==
    IF a \in DOMAIN d.trust_id_to_id /\ b \in DOMAIN d.trust_id_to_id[a]
    THEN LET level == d.trust_id_to_id[a][b].value
         IN  CASE level = "Low" -> params.low_trust_distance
               [] level = "Medium" -> params.medium_trust_distance
               [] level = "High" -> params.high_trust_distance
               [] OTHER -> Unreachable
    ELSE Unreachable

MinOf(set) == CHOOSE x \in set : \A y \in set : x <= y

\* Bellman-Ford rounds
RECURSIVE Relaxed(_, _, _, _)
Relaxed(d, params, dist, rounds) ==
    IF rounds = 0 THEN dist
    ELSE Relaxed(d, params,
            [b \in Ids |-> MinOf({dist[b]} \cup
                {IF dist[a] + EdgeWeight(d, params, a, b) < Unreachable
                 THEN dist[a] + EdgeWeight(d, params, a, b) ELSE Unreachable : a \in Ids})],
            rounds - 1)

ShortestDistance(d, params, root) ==
    Relaxed(d, params, [b \in Ids |-> IF b = root THEN 0 ELSE Unreachable],
            Cardinality(Ids))

WithinBudget(d, params, root) ==
    {id \in Ids : ShortestDistance(d, params, root)[id] <= params.max_distance}

\* C8: calculate_trust_set(root, params) returns exactly the ids whose
\* shortest-path distance from root is <= max_distance in the graph of the
\* stored trust edges of level Low, Medium, High, weighted low, medium, high.
C8_TrustSetIsWithinBudget ==
    (last.op = "calculate_trust_set" /\ ~last.result.panic)
        => last.result.ids = WithinBudget(db, last.params, last.for_id)

\* C9: Trust set is monotone in the budget.  For the same database, root and
\* weights, the trust set of max_distance = k is a subset of the trust set
\* of max_distance = k + 1, whenever both calls return.
C9_TrustSetMonotoneInBudget ==
    (last.op = "calculate_trust_set" /\ last.params.max_distance < U64Max)
        => LET larger == calculate_trust_set(db, last.for_id,
                            [last.params EXCEPT !.max_distance = @ + 1],
                            last.overflow_checks)
           IN  (~last.result.panic /\ ~larger.panic) => last.result.ids \subseteq larger.ids

\* the budget k leaves out an id that the budget k + 1 admits
C9_Witness ==
    /\ last.op = "calculate_trust_set" /\ last.params.max_distance < U64Max
    /\ ~last.result.panic
    /\ LET larger == calculate_trust_set(db, last.for_id,
                        [last.params EXCEPT !.max_distance = @ + 1],
                        last.overflow_checks)
       IN  /\ ~larger.panic
           /\ last.result.ids /= larger.ids
           /\ Cardinality(last.result.ids) >= 2

\* C10: Trust set contains root.  For every database (the empty one, one
\* where root is unknown or has no outgoing edges) and every choice of
\* parameters (max_distance = 0 included), root is in the set that
\* calculate_trust_set(root, params) returns.
C10_TrustSetContainsRoot ==
    (last.op = "calculate_trust_set" /\ ~last.result.panic)
        => last.for_id \in last.result.ids

\* the query was made on a root without outgoing edges, with no budget
C10_Witness ==
    /\ last.op = "calculate_trust_set" /\ ~last.result.panic
    /\ last.params.max_distance = 0
    /\ last.for_id \notin DOMAIN db.trust_id_to_id
    /\ db.trust_id_to_id /= EmptyMap
    /\ last.result.ids = {last.for_id}

\* the database without the trust edges whose stored level is Distrust or None
WithoutSentinelEdges(d) ==
    [d EXCEPT !.trust_id_to_id =
        [a \in DOMAIN d.trust_id_to_id |->
            [b \in {c \in DOMAIN d.trust_id_to_id[a] :
                        d.trust_id_to_id[a][c].value \notin {"Distrust", "None"}} |->
                d.trust_id_to_id[a][b]]]]

\* C11: Distrust and None edges do not exist for traversal.
\* calculate_trust_set returns what it returns on the database with every
\* edge of stored level Distrust or None removed: no id is added because of
\* such an edge and nothing is reached through its target by it.
C11_SentinelEdgesDoNotExist ==
    last.op = "calculate_trust_set"
        => last.result = calculate_trust_set(WithoutSentinelEdges(db), last.for_id,
                                             last.params, last.overflow_checks)

\* A ->Distrust B, B ->High C, root A: the set is {A}
C11_Witness ==
    /\ last.op = "calculate_trust_set" /\ last.for_id = "A"
    /\ "A" \in DOMAIN db.trust_id_to_id /\ "B" \in DOMAIN db.trust_id_to_id
    /\ "B" \in DOMAIN db.trust_id_to_id["A"] /\ "C" \in DOMAIN db.trust_id_to_id["B"]
    /\ db.trust_id_to_id["A"]["B"].value = "Distrust"
    /\ db.trust_id_to_id["B"]["C"].value = "High"
    /\ last.params.max_distance = U64Max
    /\ last.result = [panic |-> FALSE, ids |-> {"A"}]

\* ------------------------------------------------------------------------
\* verify_digest on a database of reviews by several ids
\* ------------------------------------------------------------------------
MaxReviews == 2

\* package reviews of digest d1 by A and by B with every rating, and code
\* reviews by C of the file with digest d1
ReviewProofs ==
    {PackageProof(PubId(f, "u1"), d, PackageInfo("s1", "n1", "v1", "d1"), r) :
        f \in {"A", "B"}, d \in Dates, r \in Ratings}
    \cup {CodeProof(PubId("C", "u1"), 1, <<[digest |-> "d1"]>>, r) :
        r \in {"Negative", "Positive"}}

AddReviewProof == AddProof(ReviewProofs, MaxReviews)

\* one verify_digest query on the populated database, with its result
VerifyDigest ==
    /\ last = NoQuery
    /\ \E digest \in Digests, trust_set \in SUBSET Ids :
          last' = [op |-> "verify_digest", digest |-> digest, trust_set |-> trust_set,
                   result |-> verify_digest(db, digest, trust_set)]
    /\ UNCHANGED <<db, log, cmd>>

NextVerify == AddReviewProof \/ VerifyDigest
SpecVerify == Init /\ [][NextVerify]_vars

\* the ids with a stored review of the digest
ReviewersOf(d, digest) ==
    IF digest \in DOMAIN d.digest_to_reviews THEN DOMAIN d.digest_to_reviews[digest] ELSE {}

StoredRating(d, digest, id) == d.digest_to_reviews[digest][id].value.rating

\* C12: flag dominance.  If at least one id of the trusted set has a stored
\* review of the digest with a rating below Neutral, verify_digest returns
\* Flagged, whatever positive reviews exist.
C12_FlagDominates ==
    (/\ last.op = "verify_digest"
     /\ \E m \in last.trust_set \cap ReviewersOf(db, last.digest) :
            RatingOrd(StoredRating(db, last.digest, m)) < RatingOrd("Neutral"))
        => last.result = "Flagged"

\* a trusted negative review next to a trusted positive one
C12_Witness ==
    /\ last.op = "verify_digest" /\ last.result = "Flagged"
    /\ \E m, n \in last.trust_set \cap ReviewersOf(db, last.digest) :
          /\ StoredRating(db, last.digest, m) = "Negative"
          /\ StoredRating(db, last.digest, n) = "Positive"

\* the database without the reviews of the digest by ids outside the set
WithoutUntrustedReviews(d, digest, trust_set) ==
    IF digest \in DOMAIN d.digest_to_reviews
    THEN [d EXCEPT !.digest_to_reviews[digest] =
            [m \in trust_set \cap DOMAIN d.digest_to_reviews[digest] |->
                d.digest_to_reviews[digest][m]]]
    ELSE d

\* C13: verify_digest returns Unknown exactly when no reviewer of the digest
\* is in the trusted set, and Verified exactly when some reviewer is and every
\* such reviewer's stored rating is Neutral or better; the reviews by ids
\* outside the trusted set have no influence on the result.
C13_UnknownAndVerified ==
    last.op = "verify_digest" =>
        LET matching == last.trust_set \cap ReviewersOf(db, last.digest)
        IN  /\ last.result = "Unknown" <=> matching = {}
            /\ last.result = "Verified" <=>
                  /\ matching # {}
                  /\ \A m \in matching :
                        RatingOrd(StoredRating(db, last.digest, m)) >= RatingOrd("Neutral")
            /\ last.result = verify_digest(
                  WithoutUntrustedReviews(db, last.digest, last.trust_set),
                  last.digest, last.trust_set)

\* reviewers exist, all of them untrusted and one of them negative: Unknown
C13_Witness ==
    /\ last.op = "verify_digest" /\ last.result = "Unknown"
    /\ last.trust_set # {}
    /\ \E m \in ReviewersOf(db, last.digest) :
          StoredRating(db, last.digest, m) = "Negative"

\* ------------------------------------------------------------------------
\* Streams that may hold proofs whose verify() fails
\* ------------------------------------------------------------------------
MaxUnverified == 2

\* the process has panicked: nothing runs after it
Aborted == last.op = "panic"

\* one iteration of import_from_iter on a proof that may be invalid
AddUnverifiedProof ==
    /\ Len(log) < MaxUnverified
    /\ ~Aborted
    /\ \E proof \in MixedProofs, verifies \in BOOLEAN :
        LET r == add_proof_verify(db, proof, verifies)
        IN  /\ db' = r.db
            /\ IF r.panic
               THEN log' = log /\ last' = [op |-> "panic", proof |-> proof]
               ELSE log' = Append(log, proof) /\ last' = NoQuery
    /\ UNCHANGED cmd

NextUnverified == AddUnverifiedProof
SpecUnverified == Init /\ [][NextUnverified]_vars

\* C14: a proof whose verify() fails is rejected with a panic before any
\* index is touched: at the abort every map of the database is what it was
\* before the call, whichever of the three kinds of content the proof holds.
C14_InvalidProofTouchesNothing ==
    [][last'.op = "panic" => db' = db]_vars

\* an invalid package review met by a database that already holds proofs
C14_Witness ==
    /\ Aborted
    /\ last.proof.kind = "Package"
    /\ Len(log) = 1 /\ log[1].kind = "Trust"
    /\ db = add_proof(NewTrustDB, log[1])

\* ------------------------------------------------------------------------
\* cargo-crev `verify deps` (main.rs)
\* ------------------------------------------------------------------------
MaxLoaded == 2
MaxDeps == 2

\* the source name of crates.io packages
PROJECT_SOURCE_CRATES_IO == "https://crates.io"

\* the proofs of the local store: A finds digest d1 good, B finds it bad,
\* C reviews a file of digest d2
StoreProofs ==
    {PackageProof(PubId("A", "u1"), 1,
                  PackageInfo(PROJECT_SOURCE_CRATES_IO, "n1", "v1", "d1"), "Positive"),
     PackageProof(PubId("B", "u1"), 1,
                  PackageInfo(PROJECT_SOURCE_CRATES_IO, "n1", "v1", "d1"), "Negative"),
     CodeProof(PubId("C", "u1"), 1, <<[digest |-> "d2"]>>, "Negative")}

\* the packages of the resolved workspace and the directories they live in
Dependencies ==
    {[name |-> "n1", version |-> "v1", path |-> "cwd/n1"],
     [name |-> "n1", version |-> "v1", path |-> "registry/n1-v1"],
     [name |-> "n2", version |-> "v1", path |-> "registry/n2-v1"]}

\* path.starts_with(&current_dir)
IsLocal(path) == path = "cwd/n1"

\* what the environment answers while one dependency is processed:
\* package_set.get / source.download, get_dir_digest, get_downloads_count
Failed == [ok |-> FALSE]
Ok(v) == [ok |-> TRUE, value |-> v]
Answers ==
    [fetched : BOOLEAN,
     digest : {Failed} \cup {Ok(d) : d \in Digests},
     downloads : {Failed, Ok(<<1, 2>>)}]

\* the answers to the calls one iteration makes on `dep`; a call that is not
\* reached has no answer, written Failed
AnswersFor(dep) ==
    {a \in Answers :
        /\ (~a.fetched \/ IsLocal(dep.path)) => ~a.digest.ok
        /\ ~a.digest.ok => ~a.downloads.ok}

\* .map(|(a, b)| (a.to_string(), b.to_string())).unwrap_or_else(|e| ("err", "err"))
downloads_columns(downloads) ==
    IF downloads.ok
    THEN <<ToString(downloads.value[1]), ToString(downloads.value[2])>>
    ELSE <<"err", "err">>

\* the row println! writes
Row(result, pkg_version_review_count, pkg_review_count, columns, path) ==
    [result |-> result,
     pkg_version_review_count |-> pkg_version_review_count,
     pkg_review_count |-> pkg_review_count,
     version_downloads |-> columns[1],
     total_downloads |-> columns[2],
     path |-> path]

\* a failed download-count lookup propagated with `?`
verify_dependency_downloads_abort(d, trust_set, dep, answer) ==
    IF ~answer.fetched THEN [err |-> TRUE, rows |-> << >>]
    ELSE IF IsLocal(dep.path) THEN [err |-> FALSE, rows |-> << >>]
    ELSE IF ~answer.digest.ok THEN [err |-> TRUE, rows |-> << >>]
    ELSE IF ~answer.downloads.ok THEN [err |-> TRUE, rows |-> << >>]
    ELSE LET digest == answer.digest.value
             result == verify_digest(d, digest, trust_set)
             pkg_review_count ==
                 get_package_review_count(d, PROJECT_SOURCE_CRATES_IO, dep.name, Nil)
             pkg_version_review_count ==
                 get_package_review_count(d, PROJECT_SOURCE_CRATES_IO, dep.name, dep.version)
         IN  [err |-> FALSE,
              rows |-> <<Row(result, pkg_version_review_count.count, pkg_review_count.count,
                             downloads_columns(answer.downloads), dep.path)>>]

\* One iteration of the loop of for_every_dependency_dir with the closure of
\* Verify::Deps: the rows printed (none or one) and whether `?` returned an Err
verify_dependency(d, trust_set, dep, answer) ==
    IF ~answer.fetched THEN [err |-> TRUE, rows |-> << >>]
    ELSE IF IsLocal(dep.path) THEN [err |-> FALSE, rows |-> << >>]
    ELSE IF ~answer.digest.ok THEN [err |-> TRUE, rows |-> << >>]
    ELSE LET digest == answer.digest.value
             result == verify_digest(d, digest, trust_set)
             pkg_review_count ==
                 get_package_review_count(d, PROJECT_SOURCE_CRATES_IO, dep.name, Nil)
             pkg_version_review_count ==
                 get_package_review_count(d, PROJECT_SOURCE_CRATES_IO, dep.name, dep.version)
         IN  [err |-> FALSE,
              rows |-> <<Row(result, pkg_version_review_count.count, pkg_review_count.count,
                             downloads_columns(answer.downloads), dep.path)>>]

\* the process ends: main returned Err (exit code 1) or Ok(()) (exit code 0)
Exited(c, code) == [c EXCEPT !.pc = "exited", !.exit = code]

\* local.load_db has filled the database from the store before the pass
LoadDb ==
    /\ cmd = Idle
    /\ AddProof(StoreProofs, MaxLoaded)

\* Verify::Deps up to the call of for_every_dependency_dir; trust_set is the
\* set load_db returned, and `opened` is FALSE when a `?` before the loop fails
VerifyDepsStart ==
    /\ cmd = Idle
    /\ \E trust_set \in SUBSET Ids, opened \in BOOLEAN :
        LET c == [op |-> "verify_deps", pc |-> "running", exit |-> 0,
                  trust_set |-> trust_set, seen |-> << >>, rows |-> << >>]
        IN  cmd' = IF opened THEN c ELSE Exited(c, 1)
    /\ UNCHANGED <<db, log, last>>

\* the next package id of the loop
VerifyDepsStep ==
    /\ cmd.op = "verify_deps" /\ cmd.pc = "running"
    /\ Len(cmd.seen) < MaxDeps
    /\ \E dep \in Dependencies :
       \E answer \in AnswersFor(dep) :
        LET r == verify_dependency(db, cmd.trust_set, dep, answer)
            c == [cmd EXCEPT !.seen = Append(@, [dep |-> dep, answer |-> answer]),
                             !.rows = @ \o r.rows]
        IN  cmd' = IF r.err THEN Exited(c, 1) ELSE c
    /\ UNCHANGED <<db, log, last>>

\* the loop is over: for_every_dependency_dir and main return Ok(())
VerifyDepsEnd ==
    /\ cmd.op = "verify_deps" /\ cmd.pc = "running"
    /\ cmd' = Exited(cmd, 0)
    /\ UNCHANGED <<db, log, last>>

NextVerifyDeps == LoadDb \/ VerifyDepsStart \/ VerifyDepsStep \/ VerifyDepsEnd
SpecVerifyDeps == Init /\ [][NextVerifyDeps]_vars

\* C15: `verify deps` exits non-zero whenever the verify_digest result of at
\* least one non-local dependency is Flagged, and exits zero only when none
\* is Flagged and no error occurred.
C15_FlaggedExitsNonZero ==
    (cmd.op = "verify_deps" /\ cmd.pc = "exited") =>
        /\ (\E i \in DOMAIN cmd.rows : cmd.rows[i].result = "Flagged") => cmd.exit # 0
        /\ cmd.exit = 0 =>
              /\ \A i \in DOMAIN cmd.rows : cmd.rows[i].result # "Flagged"
              /\ \A i \in DOMAIN cmd.seen :
                    verify_dependency(db, cmd.trust_set, cmd.seen[i].dep,
                                      cmd.seen[i].answer).err = FALSE

\* the iteration reached the download-count lookup
ReachedLookup(s) == s.answer.fetched /\ ~IsLocal(s.dep.path) /\ s.answer.digest.ok

\* the number of the first i dependencies that reached the lookup
LookupsUpTo(i) == Cardinality({j \in 1..i : ReachedLookup(cmd.seen[j])})

\* C17: in `verify deps` a failed download-count lookup for one dependency
\* does not abort the pass: the row of that dependency is still written, with
\* `err` in both download columns, and the dependencies after it are still
\* processed (the pass ends early only on a failure of its own: a package
\* that cannot be fetched or a directory that cannot be digested).
C17_DownloadFailureIsPerRow ==
    cmd.op = "verify_deps" =>
        /\ Len(cmd.rows) = LookupsUpTo(Len(cmd.seen))
        /\ \A i \in DOMAIN cmd.seen :
              ReachedLookup(cmd.seen[i]) =>
                  LET row == cmd.rows[LookupsUpTo(i)]
                      failed == ~cmd.seen[i].answer.downloads.ok
                  IN  /\ row.path = cmd.seen[i].dep.path
                      /\ failed <=> row.version_downloads = "err"
                      /\ failed <=> row.total_downloads = "err"
        /\ (cmd.pc = "exited" /\ cmd.exit # 0 /\ cmd.seen # << >>) =>
              ~ReachedLookup(cmd.seen[Len(cmd.seen)])

\* the lookup fails for the first dependency and the second one gets its row
C17_Witness ==
    /\ cmd.op = "verify_deps" /\ cmd.pc = "exited" /\ cmd.exit = 0
    /\ Len(cmd.seen) = 2 /\ Len(cmd.rows) = 2
    /\ ~cmd.seen[1].answer.downloads.ok
    /\ cmd.rows[1].version_downloads = "err" /\ cmd.rows[1].total_downloads = "err"
    /\ cmd.rows[2].version_downloads = "1" /\ cmd.rows[2].total_downloads = "2"

\* ------------------------------------------------------------------------
\* cargo-crev `review` / `flag`: review_crate (main.rs)
\* ------------------------------------------------------------------------
\* a directory that does not exist
Absent == "absent"

\* one more effect of the call, in the order the effects happen
Did(c, effect) == [c EXCEPT !.done = Append(@, effect)]

\* for_every_dependency_dir inside find_dependency_dir: the package root is
\* downloaded from upstream when it does not exist
find_dependency_dir(c, upstream) ==
    IF c.pkg_dir = Absent
    THEN Did([c EXCEPT !.pkg_dir = upstream], "download")
    ELSE c

\* the comparison left out: the call goes on whatever the digests are
after_digests_unchecked(c) ==
    Did([c EXCEPT !.pc = "remove_reviewed"], "digests_equal")

\* if digest_clean != digest_reviewed { bail!(..) }
after_digests(c) ==
    IF c.digest_clean # c.digest_reviewed
    THEN Exited(Did(c, "digests_differ"), 1)
    ELSE Did([c EXCEPT !.pc = "remove_reviewed"], "digests_equal")

\* The statement of review_crate at c.pc.  `ok` is FALSE when the statement
\* returns an Err through `?`; `upstream` is what a download would put in
\* the package directory.
review_crate_step(c, ok, upstream) ==
    IF ~ok THEN Exited(c, 1)
    ELSE CASE c.pc = "find" ->
                  [find_dependency_dir(c, upstream) EXCEPT !.pc = "clear_stale"]
           [] c.pc = "clear_stale" ->
                  IF c.reviewed_pkg_dir # Absent
                  THEN Did([c EXCEPT !.reviewed_pkg_dir = Absent, !.pc = "rename"],
                           "remove_stale")
                  ELSE [c EXCEPT !.pc = "rename"]
           [] c.pc = "rename" ->
                  Did([c EXCEPT !.reviewed_pkg_dir = c.pkg_dir, !.pkg_dir = Absent,
                                !.pc = "find_again"], "rename")
           [] c.pc = "find_again" ->
                  [find_dependency_dir(c, upstream) EXCEPT !.pc = "digests"]
           [] c.pc = "digests" ->
                  after_digests([c EXCEPT !.digest_clean = c.pkg_dir,
                                          !.digest_reviewed = c.reviewed_pkg_dir])
           [] c.pc = "remove_reviewed" ->
                  Did([c EXCEPT !.reviewed_pkg_dir = Absent, !.pc = "read_passphrase"],
                      "remove_reviewed")
           [] c.pc = "read_passphrase" ->
                  Did([c EXCEPT !.pc = "unlock"], "read_passphrase")
           [] c.pc = "unlock" -> [c EXCEPT !.pc = "build"]
           [] c.pc = "build" -> [c EXCEPT !.pc = "edit"]
           [] c.pc = "edit" -> [c EXCEPT !.pc = "sign"]
           [] c.pc = "sign" -> Did([c EXCEPT !.pc = "insert"], "sign")
           [] c.pc = "insert" ->
                  Did([c EXCEPT !.pc = "return",
                                !.inserted = <<[trust |-> c.trust,
                                                digest |-> c.digest_clean]>>], "insert")
           [] c.pc = "return" -> Exited(c, 0)

\* review_crate is called on a package whose directory may be missing, may
\* hold the upstream content or may have been changed, next to what an
\* earlier call may have left in the .crev.reviewed directory
ReviewCrateStart ==
    /\ cmd = Idle
    /\ \E trust \in {"Trust", "Distrust"},
          pkg_dir \in Digests \cup {Absent},
          reviewed_pkg_dir \in Digests \cup {Absent} :
        cmd' = [op |-> "review_crate", pc |-> "find", exit |-> 0, trust |-> trust,
                pkg_dir |-> pkg_dir, reviewed_pkg_dir |-> reviewed_pkg_dir,
                digest_clean |-> Absent, digest_reviewed |-> Absent,
                done |-> << >>, inserted |-> << >>]
    /\ UNCHANGED <<db, log, last>>

ReviewCrateStep ==
    /\ cmd.op = "review_crate" /\ cmd.pc # "exited"
    /\ \E ok \in BOOLEAN, upstream \in Digests :
        cmd' = review_crate_step(cmd, ok, upstream)
    /\ UNCHANGED <<db, log, last>>

NextReviewCrate == ReviewCrateStart \/ ReviewCrateStep
SpecReviewCrate == Init /\ [][NextReviewCrate]_vars

\* effect `a` happened, and before every `b`
Before(done, a, b) ==
    \A j \in DOMAIN done : done[j] = b => \E i \in 1..(j - 1) : done[i] = a

\* C16: freshness protocol.  In review_crate a proof is signed and inserted
\* only after the package directory was renamed aside, re-materialized and
\* the digests of the two copies compared equal; if the digests differ the
\* call fails and no passphrase is read, no proof signed, nothing inserted.
C16_FreshnessBeforeSigning ==
    cmd.op = "review_crate" =>
        LET done == cmd.done
            compared == cmd.digest_clean # Absent \/ cmd.digest_reviewed # Absent
        IN  /\ \A e \in {"sign", "insert"} :
                  /\ Before(done, "digests_equal", e)
                  /\ \A k \in DOMAIN done : done[k] = e =>
                        \E h, i, j \in 1..(k - 1) :
                            /\ h < i /\ i < j
                            /\ done[h] = "rename"
                            /\ done[i] = "download"
                            /\ done[j] = "digests_equal"
            /\ Before(done, "sign", "insert")
            /\ cmd.inserted # << >> => cmd.inserted[1].digest = cmd.pkg_dir
            /\ (compared /\ cmd.digest_clean # cmd.digest_reviewed) =>
                  /\ cmd.pc = "exited" /\ cmd.exit # 0
                  /\ \A k \in DOMAIN done :
                        done[k] \notin {"read_passphrase", "sign", "insert"}
                  /\ cmd.inserted = << >>

\* a review of an unchanged package was signed and inserted
C16_Witness ==
    /\ cmd.op = "review_crate" /\ cmd.pc = "exited" /\ cmd.exit = 0
    /\ cmd.inserted = <<[trust |-> "Trust", digest |-> "d1"]>>
    /\ cmd.done = <<"remove_stale", "rename", "download", "digests_equal",
                    "remove_reviewed", "read_passphrase", "sign", "insert">>

\* ------------------------------------------------------------------------
\* Package review queries against the ingested proofs
\* ------------------------------------------------------------------------
\* the arguments the queries accept: (None, Some(_)) is a usage error
LegalCountArgs == {a \in AllCountArgs : ~(a[2] = Nil /\ a[3] # Nil)}

\* the positions in log of the package reviews whose package matches
MatchingReviews(source, name, version) ==
    {i \in DOMAIN log :
        /\ log[i].kind = "Package"
        /\ log[i].package.source = source
        /\ name # Nil => log[i].package.name = name
        /\ version # Nil => log[i].package.version = version}

MatchingSignatures(source, name, version) ==
    {log[i].signature : i \in MatchingReviews(source, name, version)}

\* C18: after any sequence of add_proof calls, get_package_review_count is
\* the number of distinct signatures among the ingested package reviews whose
\* package matches the source (and the name, and the version, when given),
\* 0 when there is none; Trust and Code proofs, which have no part in that
\* number, change no count.
C18_CountIsDistinctSignatures ==
    \A a \in LegalCountArgs :
        get_package_review_count(db, a[1], a[2], a[3])
            = [panic |-> FALSE,
               count |-> Cardinality(MatchingSignatures(a[1], a[2], a[3]))]

\* a Trust proof and reviews of two versions of one package were ingested:
\* 2 by name, 1 by version, 0 for a name without reviews
C18_Witness ==
    /\ Len(log) = 3
    /\ \E i, j, k \in DOMAIN log :
          /\ log[i].kind = "Trust"
          /\ log[j].kind = "Package" /\ log[j].package.version = "v1"
          /\ log[k].kind = "Package" /\ log[k].package.version = "v2"
    /\ get_package_review_count(db, "s1", "n1", Nil).count = 2
    /\ get_package_review_count(db, "s1", "n1", "v1").count = 1
    /\ get_package_review_count(db, "s1", "n2", Nil).count = 0

\* the position in log at which the signature was first ingested
FirstIngested(signature) ==
    CHOOSE i \in DOMAIN log :
        /\ log[i].kind = "Package" /\ log[i].signature = signature
        /\ \A j \in 1..(i - 1) : ~(log[j].kind = "Package" /\ log[j].signature = signature)

\* one review per signature of the matching set, ascending by date
OnePerSignatureByDate(a) ==
    LET r == get_package_reviews_for_package(db, a[1], a[2], a[3])
    IN  /\ ~r.panic
        /\ Len(r.proofs) = get_package_review_count(db, a[1], a[2], a[3]).count
        /\ {r.proofs[i].signature : i \in DOMAIN r.proofs}
              = MatchingSignatures(a[1], a[2], a[3])
        /\ \A i, j \in DOMAIN r.proofs :
              i < j => /\ r.proofs[i].signature # r.proofs[j].signature
                       /\ r.proofs[i].date <= r.proofs[j].date
        /\ \A i \in DOMAIN r.proofs : r.proofs[i] \in Range(log)

\* C19 as stated: get_package_reviews_for_package yields exactly one review
\* per signature of the matching set, as many as the count, ascending by
\* review timestamp, and reviews with equal timestamps keep the order in
\* which their signatures were inserted.
C19_TiesKeepInsertionOrder ==
    \A a \in LegalCountArgs :
        /\ OnePerSignatureByDate(a)
        /\ LET r == get_package_reviews_for_package(db, a[1], a[2], a[3])
           IN  \A i, j \in DOMAIN r.proofs :
                  (i < j /\ r.proofs[i].date = r.proofs[j].date)
                      => FirstIngested(r.proofs[i].signature)
                            < FirstIngested(r.proofs[j].signature)

\* C19: get_package_reviews_for_package yields exactly one review per
\* signature of the matching set, as many as the count, ascending by review
\* timestamp, and reviews with equal timestamps are in ascending order of
\* their signatures, the iteration order of the ordered signature set.
C19_TiesKeepSignatureOrder ==
    \A a \in LegalCountArgs :
        /\ OnePerSignatureByDate(a)
        /\ LET r == get_package_reviews_for_package(db, a[1], a[2], a[3])
           IN  \A i, j \in DOMAIN r.proofs :
                  (i < j /\ r.proofs[i].date = r.proofs[j].date)
                      => r.proofs[i].signature < r.proofs[j].signature

\* two reviews of one date, ingested in descending order of signature, come
\* back in ascending order of signature
C19_Witness ==
    /\ Len(log) = 2
    /\ log[1].kind = "Package" /\ log[2].kind = "Package"
    /\ log[1].date = log[2].date
    /\ log[2].signature < log[1].signature
    /\ get_package_reviews_for_package(db, "s1", "n1", Nil)
          = [panic |-> FALSE, proofs |-> <<log[2], log[1]>>]

\* the authors of the ingested proofs and the ids the Trust proofs name
IdsSeen ==
    {log[i].from.id : i \in DOMAIN log}
    \cup UNION {{log[i].ids[k].id : k \in DOMAIN log[i].ids} :
                    i \in {j \in DOMAIN log : log[j].kind = "Trust"}}

\* C20: after any sequence of add_proof calls, all_known_ids() is the union
\* of the key sets of the primary and the secondary URL map, which is the set
\* of the ids that were the author of an ingested proof or a target of an
\* ingested Trust proof; it is empty for the empty database.
C20_AllKnownIds ==
    /\ all_known_ids(db) = DOMAIN db.url_by_id \cup DOMAIN db.url_by_id_secondary
    /\ all_known_ids(db) = IdsSeen
    /\ log = << >> => all_known_ids(db) = {}

\* B is known as the target of a Trust proof only
C20_Witness ==
    /\ Len(log) = 1 /\ log[1].kind = "Trust"
    /\ all_known_ids(db) = {"A", "B"}
    /\ "B" \notin DOMAIN db.url_by_id

\* ------------------------------------------------------------------------
\* The while loop of calculate_trust_set, one iteration per step
\* ------------------------------------------------------------------------
MaxCycleEdges == 2

\* the edge A -> B at two levels, the back edge B -> A that closes the cycle
\* and the edge B -> C that leaves it
CycleProofs ==
    {TrustProof(PubId("A", "u1"), 1, l, <<PubId("B", "u1")>>) : l \in {"High", "Low"}}
    \cup {TrustProof(PubId("B", "u1"), 1, "High", <<PubId(t, "u1")>>) : t \in {"A", "C"}}

\* the parameters that differ in what they give a High or a Low edge
LoopParams ==
    {TrustDistanceParams(max, high, low, low) : max \in U64, high \in U64, low \in U64}

\* the database is filled before the call; &self is borrowed during it
AddCycleProof ==
    /\ last = NoQuery
    /\ AddProof(CycleProofs, MaxCycleEdges)

\* calculate_trust_set up to the while loop: the root is pending and visited.
\* The root is A, the id on the cycle every other id is reached from.
TrustSetStart ==
    /\ last = NoQuery
    /\ \E for_id \in {"A"}, params \in LoopParams, overflow_checks \in BOOLEAN :
        last' = [op |-> "trust_set_loop", pc |-> "loop", for_id |-> for_id,
                 params |-> params, overflow_checks |-> overflow_checks,
                 st |-> [pending |-> {Visit(0, for_id)},
                         visited |-> InitialVisited(for_id),
                         panic |-> FALSE]]
    /\ UNCHANGED <<db, log, cmd>>

\* one iteration of `while let Some(current) = pending.iter().next().cloned()`:
\* the least visit is removed, skipped when a smaller distance is recorded
\* for its id, and its edges are relaxed otherwise
while_iteration(d, st, params, overflow_checks) ==
    LET current == CHOOSE v \in st.pending :
                       \A w \in st.pending : v = w \/ VisitLess(v, w)
        st1 == [st EXCEPT !.pending = st.pending \ {current}]
    IN  IF current.id \in DOMAIN st1.visited
           /\ st1.visited[current.id] < current.distance
        THEN st1
        ELSE RelaxAll(st1, current, get_ids_trusted_by(d, current.id),
                      params, overflow_checks)

TrustSetIterate ==
    /\ last.op = "trust_set_loop" /\ last.pc = "loop"
    /\ last.st.pending # {}
    /\ LET st == while_iteration(db, last.st, last.params, last.overflow_checks)
       IN  last' = [last EXCEPT !.st = st,
                                !.pc = IF st.panic THEN "panicked" ELSE "loop"]
    /\ UNCHANGED <<db, log, cmd>>

\* pending is empty: the keys of visited are returned
TrustSetReturn ==
    /\ last.op = "trust_set_loop" /\ last.pc = "loop"
    /\ last.st.pending = {}
    /\ last' = [last EXCEPT !.pc = "returned"]
    /\ UNCHANGED <<db, log, cmd>>

NextTrustLoop == AddCycleProof \/ TrustSetStart \/ TrustSetIterate \/ TrustSetReturn

\* a call that has started keeps running: the loop takes its next iteration
SpecTrustLoop ==
    /\ Init /\ [][NextTrustLoop]_vars
    /\ WF_vars(TrustSetIterate) /\ WF_vars(TrustSetReturn)

\* the visits an iteration adds to pending are first visits of their id or
\* carry a distance strictly below the one recorded for it
EnqueuedOnlyOnImprovement ==
    (last.op = "trust_set_loop" /\ last'.op = "trust_set_loop") =>
        \A v \in last'.st.pending \ last.st.pending :
            /\ v.id \in DOMAIN last.st.visited => v.distance < last.st.visited[v.id]
            /\ last'.st.visited[v.id] <= v.distance

\* the call is over: pending is empty and the set returned, or, in a build
\* with overflow checks, the sum has panicked
TrustSetLoopOver ==
    /\ last.op = "trust_set_loop"
    /\ \/ last.pc = "returned" /\ last.st.pending = {}
       \/ last.pc = "panicked" /\ last.overflow_checks

\* C21: calculate_trust_set terminates on every finite trust graph, cycles
\* and cycles of zero-weight edges included: an id is enqueued only on its
\* first visit or when its recorded distance strictly decreases, so every
\* call that has started comes to its end.
C21_TrustSetLoopTerminates ==
    /\ [][EnqueuedOnlyOnImprovement]_vars
    /\ (last.op = "trust_set_loop") ~> TrustSetLoopOver

\* the call has returned {A, B} on the cycle A ->High B ->High A of weight 0
C21_Witness ==
    /\ last.op = "trust_set_loop" /\ last.pc = "returned"
    /\ last.for_id = "A" /\ last.params.high_trust_distance = 0
    /\ "A" \in DOMAIN db.trust_id_to_id /\ "B" \in DOMAIN db.trust_id_to_id
    /\ "B" \in DOMAIN db.trust_id_to_id["A"] /\ "A" \in DOMAIN db.trust_id_to_id["B"]
    /\ db.trust_id_to_id["A"]["B"].value = "High"
    /\ db.trust_id_to_id["B"]["A"].value = "High"
    /\ DOMAIN last.st.visited = {"A", "B"}

\* the signatures held by a secondary index
SignaturesIn(index) == UNION {Range(index[k]) : k \in DOMAIN index}

\* C22: the queries are total except for the illegal (name = None,
\* version = Some) call, which aborts.  In every reachable state each
\* signature of the three secondary indices is a key of
\* package_review_by_signature, so get_package_reviews_for_package never
\* fails on a signature, and both queries return for every other combination
\* of arguments, unknown sources, names and versions included.
C22_QueriesAreTotal ==
    /\ SignaturesIn(db.package_reviews_by_source)
          \cup SignaturesIn(db.package_reviews_by_name)
          \cup SignaturesIn(db.package_reviews_by_version)
          \subseteq DOMAIN db.package_review_by_signature
    /\ \A a \in AllCountArgs :
          LET illegal == a[2] = Nil /\ a[3] # Nil
          IN  /\ get_package_review_count(db, a[1], a[2], a[3]).panic = illegal
              /\ get_package_reviews_for_package(db, a[1], a[2], a[3]).panic = illegal

\* reviews are stored: a known package yields them, an unknown source, name
\* or version yields none, and the illegal call aborts
C22_Witness ==
    /\ get_package_reviews_for_package(db, "s1", "n1", "v1").proofs # << >>
    /\ get_package_reviews_for_package(db, "s1", Nil, Nil).proofs # << >>
    /\ get_package_reviews_for_package(db, "s2", Nil, Nil)
          = [panic |-> FALSE, proofs |-> << >>]
    /\ get_package_reviews_for_package(db, "s1", "n2", Nil)
          = [panic |-> FALSE, proofs |-> << >>]
    /\ get_package_reviews_for_package(db, "s1", "n1", "v2")
          = [panic |-> FALSE, proofs |-> << >>]
    /\ get_package_review_count(db, "s1", Nil, "v1").panic

\* C23: recording the URL of a trust target never overwrites a primary
\* entry.  Ingesting a Trust proof changes url_by_id at the id of the author
\* only: for every other id, the targets included, the primary entry is what
\* it was, and the URL of a target goes into url_by_id_secondary and into no
\* other map.
C23_TargetUrlLeavesPrimaryAlone ==
    [][(Len(log') = Len(log) + 1 /\ log'[Len(log')].kind = "Trust") =>
        LET trust == log'[Len(log')]
        IN  /\ \A id \in Ids \ {trust.from.id} :
                  /\ id \in DOMAIN db'.url_by_id <=> id \in DOMAIN db.url_by_id
                  /\ id \in DOMAIN db.url_by_id => db'.url_by_id[id] = db.url_by_id[id]
            /\ \A i \in DOMAIN trust.ids :
                  LET to == trust.ids[i]
                  IN  /\ to.id \in DOMAIN db'.url_by_id_secondary
                      /\ db'.url_by_id_secondary[to.id]
                            = IF to.id \in DOMAIN db.url_by_id_secondary
                              THEN db.url_by_id_secondary[to.id]
                              ELSE Timestamped(trust.date, to.url)
            /\ db'.digest_to_reviews = db.digest_to_reviews
            /\ db'.package_review_by_signature = db.package_review_by_signature
            /\ db'.package_reviews_by_source = db.package_reviews_by_source
            /\ db'.package_reviews_by_name = db.package_reviews_by_name
            /\ db'.package_reviews_by_version = db.package_reviews_by_version]_vars

\* B published from u1, then A named B with the URL u2: the primary entry
\* of B is still u1 and u2 is in the secondary map
C23_Witness ==
    /\ Len(log) = 2
    /\ log[1].kind = "Package" /\ log[1].from = PubId("B", "u1")
    /\ log[2].kind = "Trust" /\ log[2].ids = <<PubId("B", "u2")>>
    /\ db.url_by_id["B"].value = "u1"
    /\ db.url_by_id_secondary["B"].value = "u2"

\* C24: for all u64 values of max_distance and of the high, medium and low
\* weights, the sum current.distance + candidate_distance_from_current of
\* calculate_trust_set does not overflow: a build with overflow checks never
\* panics on it, and no id whose distance from the root in unbounded
\* arithmetic exceeds max_distance is in the set because the sum wrapped.
C24_SumNeverOverflows ==
    last.op = "calculate_trust_set" =>
        /\ ~calculate_trust_set(db, last.for_id, last.params, TRUE).panic
        /\ \A id \in last.result.ids :
              ShortestDistance(db, last.params, last.for_id)[id] <= last.params.max_distance

====
